---- MODULE Spec2Model ----
(***************************************************************************)
(* A model of the backtest engine of src/backtest.py: BackTest.start(),    *)
(* the data provisioning (ensure_data_files, download_missing_data), the   *)
(* timeframe alignment and the minute-by-minute replay loop of             *)
(* backtest_bot_trader.                                                    *)
(*                                                                         *)
(* Time is counted in minutes since midnight of the first day; a candle is *)
(* represented by its "Open time".  A stored file is the sequence of the   *)
(* rows of its CSV, in file order (which need not be sorted).  Stored      *)
(* candles have distinct Open times and lie on their timeframe's grid, as  *)
(* the candles MetaTrader 5 gives do; a series may have gaps.              *)
(*                                                                         *)
(* utils.tf_cron, utils.NUM_KLINE_INIT and the Trader are not part of the  *)
(* sources at hand: the firing rules are those the specification gives,    *)
(* the warm-up count is scaled down, and the Trader is the log of the      *)
(* calls it receives.                                                      *)
(***************************************************************************)
EXTENDS Integers, Sequences, FiniteSets, TLC

VARIABLES
    symbols_config,        \* the parsed symbols_trading_cfg_file: a list of symbol entries
    exchange_config_file,  \* TRUE iff an exchange config file was given to __init__
    exchange_configs,      \* the top-level keys of that file
    files,                 \* storage: (symbol, interval, year, month) -> rows of the CSV
    pc,                    \* position of start()
    ensure_result,         \* what ensure_data_files returned: "none" until it returns
    missing_files,         \* the list check_data_files_exist returned
    queue,                 \* the fetches download_missing_data still has to make, in order
    successful,            \* download_missing_data's counter
    total,                 \* download_missing_data's total
    mt5_connected,         \* TRUE between a successful mt5.initialize() and mt5.shutdown()
    mt5_log,               \* every call made to the MetaTrader5 module, in order
    sym_idx,               \* index in symbols_config of the symbol start() is at
    c,                     \* start()'s counter of backtested symbols
    bot_traders,           \* self.bot_traders
    bot_trader,            \* the Trader of the running backtest_bot_trader
    tfs_chart,             \* per timeframe, the replay slice (what is left of it)
    tfs_chart_init,        \* per timeframe, the init slice
    max_time,              \* the alignment instant (globalStart)
    end_time,              \* the replay bound (globalEnd)
    timer,                 \* the virtual clock
    required_tfs,          \* the timeframes the replay loop goes through, in order
    summary_result,        \* summary_trade_result: "none" until called, then "table" or "raised"
    backtest_stats,        \* summary_trade_result: what statistic_trade() gave, per trader
    table_stats            \* summary_trade_result: the table it returns

vars == <<symbols_config, exchange_config_file, exchange_configs, files, pc,
          ensure_result, missing_files, queue, successful, total, mt5_connected,
          mt5_log, sym_idx, c, bot_traders, bot_trader, tfs_chart, tfs_chart_init,
          max_time, end_time, timer, required_tfs, summary_result, backtest_stats,
          table_stats>>

\* What only summary_trade_result writes.
summary_vars == <<summary_result, backtest_stats, table_stats>>

(***************************************************************************)
(* Bounds of the model.                                                    *)
(***************************************************************************)
\* The warm-up count.  utils.NUM_KLINE_INIT is imported by backtest.py; the
\* model scales it down.
NUM_KLINE_INIT == 2

\* Number of grid points of each timeframe from which candle series are drawn.
GridLen == 4

\* start() stops after this many symbols (the literal of its `if c >= 2`).
MaxSymbolsPerRun == 2

\* The longest configuration, in symbols.
MaxSymbols == 3

(***************************************************************************)
(* Sequence helpers.                                                       *)
(***************************************************************************)
Range(s) == {s[i] : i \in DOMAIN s}

Max(S) == CHOOSE x \in S : \A y \in S : y <= x

RECURSIVE Concat(_)
Concat(ss) == IF ss = <<>> THEN <<>> ELSE Head(ss) \o Concat(Tail(ss))

\* The ascending enumeration of a finite set of integers.
RECURSIVE SetToSortedSeq(_)
SetToSortedSeq(S) ==
    IF S = {} THEN <<>>
    ELSE LET m == CHOOSE x \in S : \A y \in S : x <= y
         IN  <<m>> \o SetToSortedSeq(S \ {m})

Reverse(s) == [i \in 1..Len(s) |-> s[Len(s) + 1 - i]]

\* All the orderings of a finite set, as sequences without repetition.
Perms(S) == {s \in [1..Cardinality(S) -> S] : \A i, j \in DOMAIN s : i # j => s[i] # s[j]}

(***************************************************************************)
(* Timeframes and the virtual clock.                                       *)
(***************************************************************************)
\* The intervals download can fetch (the keys of TIMEFRAME_MAP).
TIMEFRAME_MAP == {"1m", "5m", "15m", "30m", "1h", "4h", "1d", "1w", "1mn"}

\* utils.tf_cron: the firing rule of each timeframe, in key order.  A rule
\* holds the allowed values of "hour" and of "minute"; a field it does not
\* hold is not constrained.
tf_cron_keys == <<"1m", "5m", "1h">>

tf_cron ==
    [tf \in Range(tf_cron_keys) |->
        CASE tf = "1m" -> [k \in {} |-> {}]
          [] tf = "5m" -> [minute |-> {m \in 0..59 : m % 5 = 0}]
          [] tf = "1h" -> [minute |-> {0}]]

\* The length of a candle of each timeframe, in minutes.
duration == [tf \in Range(tf_cron_keys) |->
                CASE tf = "1m" -> 1 [] tf = "5m" -> 5 [] tf = "1h" -> 60]

\* timer.hour and timer.minute of a clock value.
HourOf(t) == (t \div 60) % 24

MinuteOf(t) == t % 60

CronFires_HourOnly(cron_time, hour, minute) ==
    "hour" \notin DOMAIN cron_time \/ hour \in cron_time["hour"]

\* The test of the replay loop on a timeframe's rule.
CronFires(cron_time, hour, minute) ==
    /\ ("hour" \notin DOMAIN cron_time \/ hour \in cron_time["hour"])
    /\ ("minute" \notin DOMAIN cron_time \/ minute \in cron_time["minute"])

(***************************************************************************)
(* Requirement resolver and storage.                                       *)
(***************************************************************************)
Intervals_FirstStrategyOnly(symbol_cfg) == {symbol_cfg.strategies[1].tf} \ {""}

\* The distinct intervals named by a symbol entry's strategies; a strategy
\* without a "tf" is skipped.
Intervals(symbol_cfg) ==
    {symbol_cfg.strategies[i].tf : i \in DOMAIN symbol_cfg.strategies} \ {""}

\* The files a configuration requires: for each symbol entry, its intervals
\* times its months, tagged with its symbol and year.
RequiredOf(config) ==
    UNION {{<<config[i].symbol, interval, config[i].year, month>> :
                interval \in Intervals(config[i]), month \in Range(config[i].months)} :
           i \in DOMAIN config}

\* get_required_data_files: the set of (symbol, interval, year, month).
get_required_data_files == RequiredOf(symbols_config)

\* os.path.exists of a required file's path.
FileExists(f) == f \in DOMAIN files

\* The tuples check_data_files_exist reports missing.
MissingSet == {f \in get_required_data_files : ~FileExists(f)}

\* load_klines_monthly_data: the rows of the file, none when it is absent or empty.
load_klines_monthly_data(symbol, interval, month, year) ==
    IF ~FileExists(<<symbol, interval, year, month>>)
    THEN <<>>
    ELSE files[<<symbol, interval, year, month>>]

(***************************************************************************)
(* download_missing_data's grouping of the missing files by symbol: the    *)
(* symbols in order of first appearance, each with its files in list order.*)
(***************************************************************************)
RECURSIVE SymbolsInOrder(_, _)
SymbolsInOrder(list, seen) ==
    IF list = <<>> THEN <<>>
    ELSE IF Head(list)[1] \in seen
         THEN SymbolsInOrder(Tail(list), seen)
         ELSE <<Head(list)[1]>> \o SymbolsInOrder(Tail(list), seen \cup {Head(list)[1]})

LastN1(s) == IF s = <<>> THEN <<>> ELSE <<s[Len(s)]>>

FilesOfSymbol(list, symbol) == SelectSeq(list, LAMBDA f : f[1] = symbol)

\* The grouping with each symbol's list overwritten instead of appended to.
FetchOrder_LastPerSymbol(list) ==
    LET syms == SymbolsInOrder(list, {})
    IN  Concat([i \in DOMAIN syms |->
                   LastN1(FilesOfSymbol(list, syms[i]))])

FetchOrder(list) ==
    LET syms == SymbolsInOrder(list, {})
    IN  Concat([i \in DOMAIN syms |-> FilesOfSymbol(list, syms[i])])

(***************************************************************************)
(* Timeframe alignment (backtest_bot_trader, before the replay loop).      *)
(***************************************************************************)
\* Trader.get_required_tfs(): the timeframes the symbol's strategies run on.
get_required_tfs(symbol_cfg) == Intervals(symbol_cfg)

\* sorted(symbol_cfg["months"])
SortedMonths(symbol_cfg) == SortSeq(symbol_cfg.months, LAMBDA a, b : a < b)

\* The months' data of a timeframe that hold at least one row, in month order.
monthly_data(symbol_cfg, tf) ==
    LET months == SortedMonths(symbol_cfg)
        loaded == [i \in DOMAIN months |->
                      load_klines_monthly_data(symbol_cfg.symbol, tf, months[i], symbol_cfg.year)]
    IN  SelectSeq(loaded, LAMBDA month_data : Len(month_data) > 0)

sort_values_Skipped(rows) == rows

\* chart_df.sort_values("Open time")
sort_values(rows) == SortSeq(rows, LAMBDA a, b : a < b)

\* The concatenated and sorted chart of a timeframe.
chart_df(symbol_cfg, tf) == sort_values(Concat(monthly_data(symbol_cfg, tf)))

\* The error the loading loop raises for a timeframe, "none" when it raises nothing.
LoadError(symbol_cfg, tf) ==
    IF Len(monthly_data(symbol_cfg, tf)) = 0 THEN "no_data"
    ELSE IF Len(chart_df(symbol_cfg, tf)) < NUM_KLINE_INIT THEN "insufficient_data"
    ELSE "none"

\* The loading loop raises ValueError at the first timeframe that fails.
LoadRaises(symbol_cfg) ==
    \E tf \in get_required_tfs(symbol_cfg) : LoadError(symbol_cfg, tf) # "none"

Min(S) == CHOOSE x \in S : \A y \in S : x <= y

MaxTimeOf_Earliest(charts) == Min({charts[tf][NUM_KLINE_INIT] : tf \in DOMAIN charts})

\* max_time: the latest Open time, over the timeframes, of the candle at
\* index NUM_KLINE_INIT - 1 (sequences here start at 1).
MaxTimeOf(charts) == Max({charts[tf][NUM_KLINE_INIT] : tf \in DOMAIN charts})

EndTimeOf_Earliest(charts) == Min({charts[tf][Len(charts[tf])] : tf \in DOMAIN charts})

\* end_time: the latest Open time, over the timeframes, of the last candle.
EndTimeOf(charts) == Max({charts[tf][Len(charts[tf])] : tf \in DOMAIN charts})

\* s[-n:]
LastN(s, n) == IF n = 0 \/ Len(s) <= n THEN s ELSE SubSeq(s, Len(s) - n + 1, Len(s))

\* tf_chart[tf_chart["Open time"] <= max_time][-NUM_KLINE_INIT:]
InitSlice(tf_chart, t) == LastN(SelectSeq(tf_chart, LAMBDA x : x <= t), NUM_KLINE_INIT)

ReplaySlice_Inclusive(tf_chart, t) == SelectSeq(tf_chart, LAMBDA x : x >= t)

\* tf_chart[tf_chart["Open time"] > max_time]
ReplaySlice(tf_chart, t) == SelectSeq(tf_chart, LAMBDA x : x > t)

RequiredTfsOf_StrategyOrder(symbol_cfg) ==
    [i \in DOMAIN symbol_cfg.strategies |-> symbol_cfg.strategies[i].tf]

\* The order the replay loop goes through the timeframes in: the keys of
\* tf_cron that the trader requires.
RequiredTfsOf(symbol_cfg) ==
    SelectSeq(tf_cron_keys, LAMBDA tf : tf \in get_required_tfs(symbol_cfg))

(***************************************************************************)
(* The Trader, seen from the engine: the calls it has received, in order.  *)
(* clock is the value of the virtual clock at the call.                    *)
(***************************************************************************)
NoTrader == [symbol |-> "", calls |-> <<>>]

InitChartCall(charts_init, clock) ==
    [op |-> "init_chart", tf |-> "", kline |-> <<>>, chart |-> charts_init, clock |-> clock]

NewTrader_AlreadyCharted(symbol_cfg) ==
    [symbol |-> symbol_cfg.symbol, calls |-> <<InitChartCall(<<>>, 0)>>]

\* Trader(symbol_cfg), init_strategies(): a trader that has received no call.
NewTrader(symbol_cfg) == [symbol |-> symbol_cfg.symbol, calls |-> <<>>]

OnKlineCall(tf, last_kline, clock) ==
    [op |-> "on_kline", tf |-> tf, kline |-> last_kline, chart |-> <<>>, clock |-> clock]

(***************************************************************************)
(* One tick of the replay loop: the timeframes whose rule fires, in order. *)
(* Each hands the head of its replay slice (a slice of at most one candle) *)
(* to on_kline and keeps the rest.                                         *)
(***************************************************************************)
\* tfs_chart[tf][:1]
FirstRow(rows) == IF rows = <<>> THEN <<>> ELSE <<Head(rows)>>

RestRows_DropsTwo(rows) == IF Len(rows) <= 1 THEN <<>> ELSE Tail(Tail(rows))

\* tfs_chart[tf][1:]
RestRows(rows) == IF rows = <<>> THEN <<>> ELSE Tail(rows)

RECURSIVE Dispatch(_, _, _, _)
Dispatch(tfs, charts, calls, clock) ==
    IF tfs = <<>> THEN [charts |-> charts, calls |-> calls]
    ELSE LET tf == Head(tfs)
         IN  IF CronFires(tf_cron[tf], HourOf(clock), MinuteOf(clock))
             THEN Dispatch(Tail(tfs),
                           [charts EXCEPT ![tf] = RestRows(charts[tf])],
                           Append(calls, OnKlineCall(tf, FirstRow(charts[tf]), clock)),
                           clock)
             ELSE Dispatch(Tail(tfs), charts, calls, clock)

(***************************************************************************)
(* The inputs: configurations and stored candle files.                     *)
(*                                                                         *)
(* The candles of a timeframe lie on its grid (multiples of its duration)  *)
(* around 08:00; a series may have gaps.  Month 1 ends and month 2 starts  *)
(* at 08:00.                                                               *)
(***************************************************************************)
GridBase == 8 * 60

Grid(tf) == {GridBase + (k - 2) * duration[tf] : k \in 0..(GridLen - 1)}

MonthOfTime(t) == IF t < GridBase THEN 1 ELSE 2

\* The rows of a file of timeframe tf and month m holding the candles `times`
\* of that month, in ascending or in descending file order.
RowsOf(times, month, descending) ==
    LET asc == SetToSortedSeq({t \in times : MonthOfTime(t) = month})
    IN  IF descending THEN Reverse(asc) ELSE asc

\* Every candle of the grid that falls in the month, in ascending order.
FullRows(tf, month) == RowsOf(Grid(tf), month, FALSE)

SymbolEntry(symbol, months, tfs) ==
    [symbol |-> symbol, year |-> 2024, months |-> months,
     strategies |-> [i \in DOMAIN tfs |-> [tf |-> tfs[i]]]]

\* The timeframes of the strategies of a richly replayed symbol.
StrategyLists ==
    {<<"1m">>, <<"5m">>, <<"1h">>, <<"1m", "5m">>, <<"5m", "1m">>, <<"1m", "1h">>,
     <<"1h", "5m">>, <<"1m", "5m", "1h">>, <<"5m", "5m">>}

MonthLists == {<<1>>, <<2>>, <<1, 2>>, <<2, 1>>}

\* The entries of the configurations with several symbols.
SymbolNames == <<"S1", "S2", "S3", "S4", "S5">>

ManySymbols(n, months1) ==
    [i \in 1..n |-> SymbolEntry(SymbolNames[i], IF i = 1 THEN months1 ELSE <<1>>, <<"1m">>)]

\* What start() has not touched yet.
Untouched ==
    /\ pc = "start"
    /\ ensure_result = "none"
    /\ missing_files = <<>>
    /\ queue = <<>>
    /\ successful = 0
    /\ total = 0
    /\ mt5_connected = FALSE
    /\ mt5_log = <<>>
    /\ sym_idx = 0
    /\ c = 0
    /\ bot_traders = <<>>
    /\ bot_trader = NoTrader
    /\ tfs_chart = <<>>
    /\ tfs_chart_init = <<>>
    /\ max_time = 0
    /\ end_time = 0
    /\ timer = 0
    /\ required_tfs = <<>>
    /\ summary_result = "none"
    /\ backtest_stats = <<>>
    /\ table_stats = <<>>

\* One symbol, every required file present, any candle series on the grids.
InitOneSymbol ==
    \E tfs \in StrategyLists, months \in MonthLists, descending \in BOOLEAN :
      \E pick \in [Range(tfs) -> SUBSET (0..(GridLen - 1))] :
        /\ symbols_config = <<SymbolEntry("S1", months, tfs)>>
        /\ exchange_config_file = FALSE
        /\ exchange_configs = {}
        /\ files = [f \in RequiredOf(<<SymbolEntry("S1", months, tfs)>>) |->
                      RowsOf({GridBase + (k - 2) * duration[f[2]] : k \in pick[f[2]]},
                             f[4], descending)]

\* Up to three symbols, any part of the required files present (some of
\* them empty), with or without an exchange config.
InitManySymbols ==
    \E n \in 1..MaxSymbols, months1 \in {<<1>>, <<1, 2>>},
       ecf \in BOOLEAN, ecs \in SUBSET {"mt5"} :
      \E present \in SUBSET RequiredOf(ManySymbols(n, months1)) :
        \E empty \in SUBSET present :
          /\ symbols_config = ManySymbols(n, months1)
          /\ exchange_config_file = ecf
          /\ exchange_configs = IF ecf THEN ecs ELSE {}
          /\ files = [f \in present |-> IF f \in empty THEN <<>> ELSE FullRows(f[2], f[4])]

\* The NUM_KLINE_INIT candles of a timeframe that end with the candle `last`.
WarmUp(tf, last) == {last - k * duration[tf] : k \in 0..(NUM_KLINE_INIT - 1)}

\* Worked examples: the timeframes of the symbol's strategies.
ScenarioTfs(sc) == IF sc = "hourly" THEN <<"1h">> ELSE <<"1m", "5m">>

\* Worked examples: the stored candles of a timeframe.
\*   "hourly":       1h warm-up ending 08:00, then 09:00, 10:00, 11:00;
\*   "five_minutes": 1m warm-up ending 07:59, then 08:00 .. 08:04, and
\*                   5m warm-up ending 07:55, then the 5m candle 08:00
\*                   that spans those five minutes;
\*   "next_five":    1m warm-up ending 08:00, then 08:01 .. 08:05, and
\*                   5m warm-up ending 08:00, then the 5m candle 08:05.
ScenarioCandles(sc, tf) ==
    CASE sc = "hourly" -> WarmUp(tf, GridBase) \cup {GridBase + k * duration[tf] : k \in 1..3}
      [] sc = "five_minutes" /\ tf = "1m" ->
            WarmUp(tf, GridBase - 1) \cup {GridBase + k : k \in 0..4}
      [] sc = "five_minutes" /\ tf = "5m" -> WarmUp(tf, GridBase - 5) \cup {GridBase}
      [] sc = "next_five" /\ tf = "1m" -> WarmUp(tf, GridBase) \cup {GridBase + k : k \in 1..5}
      [] sc = "next_five" /\ tf = "5m" -> WarmUp(tf, GridBase) \cup {GridBase + 5}

ScenarioConfig(sc) == <<SymbolEntry("S1", <<1, 2>>, ScenarioTfs(sc))>>

ScenarioFiles(sc) ==
    [f \in RequiredOf(ScenarioConfig(sc)) |-> RowsOf(ScenarioCandles(sc, f[2]), f[4], FALSE)]

\* One symbol with the stored candles of a worked example.
InitScenario ==
    \E sc \in {"hourly", "five_minutes", "next_five"} :
        /\ symbols_config = ScenarioConfig(sc)
        /\ exchange_config_file = FALSE
        /\ exchange_configs = {}
        /\ files = ScenarioFiles(sc)

Init == Untouched /\ (InitOneSymbol \/ InitManySymbols \/ InitScenario)

(***************************************************************************)
(* start(), step by step.                                                  *)
(***************************************************************************)
\* Where start() goes once the data files are ensured: it loads the
\* configuration, sets c to 0 and enters its loop over the symbols.
EnterLoop ==
    /\ c' = 0
    /\ sym_idx' = 1
    /\ pc' = IF Len(symbols_config) = 0 THEN "finished" ELSE "backtest"

StartContinues_IgnoresVerdict(result) == EnterLoop

\* start()'s test of what ensure_data_files returned: it returns at once on
\* False.
StartContinues(result) ==
    IF result
    THEN EnterLoop
    ELSE /\ pc' = "returned"
         /\ UNCHANGED <<c, sym_idx>>

\* ensure_data_files returns `result` to start().
EnsureReturns(result) ==
    /\ ensure_result' = (IF result THEN "true" ELSE "false")
    /\ StartContinues(result)

all_exist_Never(list) == FALSE

\* check_data_files_exist's all_exist: nothing is missing.
all_exist(list) == Len(list) = 0

CannotDownload_Never == FALSE

\* ensure_data_files' test `not self.exchange_config_file`.
CannotDownload == ~exchange_config_file

\* start() calls ensure_data_files, which calls check_data_files_exist and
\* returns at once when nothing is missing or when no exchange config file
\* was given; otherwise it goes on into download_missing_data.
EnsureDataFiles ==
    /\ pc = "start"
    /\ \E list \in Perms(MissingSet) :
         /\ missing_files' = list
         /\ IF all_exist(list)
            THEN EnsureReturns(TRUE)
            ELSE IF CannotDownload
            THEN EnsureReturns(FALSE)
            ELSE /\ ensure_result' = "none"
                 /\ pc' = "download"
                 /\ UNCHANGED <<c, sym_idx>>
    /\ UNCHANGED <<symbols_config, exchange_config_file, exchange_configs, files, queue,
                   successful, total, mt5_connected, mt5_log, bot_traders, bot_trader,
                   tfs_chart, tfs_chart_init, max_time, end_time, timer, required_tfs>>
    /\ UNCHANGED summary_vars

\* A call to the MetaTrader5 module: what was called, for which file (none
\* for the session calls), and whether it gave something.
Mt5Call(op, f, ok) == [op |-> op, file |-> f, ok |-> ok]

\* The calls initialize_mt5 makes, by how far it gets.
InitializeCalls(outcome) ==
    CASE outcome = "initialize_failed" -> <<Mt5Call("initialize", <<>>, FALSE)>>
      [] outcome = "login_failed" ->
            <<Mt5Call("initialize", <<>>, TRUE), Mt5Call("login", <<>>, FALSE)>>
      [] outcome = "no_account_info" ->
            <<Mt5Call("initialize", <<>>, TRUE), Mt5Call("login", <<>>, TRUE),
              Mt5Call("account_info", <<>>, FALSE)>>
      [] outcome = "ok" ->
            <<Mt5Call("initialize", <<>>, TRUE), Mt5Call("login", <<>>, TRUE),
              Mt5Call("account_info", <<>>, TRUE)>>

\* download_missing_data up to its loop: the checks of the exchange config,
\* initialize_mt5, and the grouping of the missing files by symbol.
DownloadBegin ==
    /\ pc = "download"
    /\ IF ~exchange_config_file \/ "mt5" \notin exchange_configs
       THEN /\ EnsureReturns(FALSE)
            /\ UNCHANGED <<queue, successful, total, mt5_connected, mt5_log>>
       ELSE \E outcome \in {"initialize_failed", "login_failed", "no_account_info", "ok"} :
              /\ mt5_log' = mt5_log \o InitializeCalls(outcome)
              /\ mt5_connected' = (outcome # "initialize_failed")
              /\ IF outcome = "ok"
                 THEN /\ successful' = 0
                      /\ total' = Len(missing_files)
                      /\ queue' = FetchOrder(missing_files)
                      /\ pc' = "fetch"
                      /\ UNCHANGED <<ensure_result, c, sym_idx>>
                 ELSE /\ EnsureReturns(FALSE)
                      /\ UNCHANGED <<queue, successful, total>>
    /\ UNCHANGED <<symbols_config, exchange_config_file, exchange_configs, files,
                   missing_files, bot_traders, bot_trader, tfs_chart,
                   tfs_chart_init, max_time, end_time, timer, required_tfs>>
    /\ UNCHANGED summary_vars

\* What mt5.copy_rates_range can give for a file, as rows: none (None, an
\* empty array or an exception) or the candles of the month.
RatesOutcomes(f) ==
    {<<>>} \cup (IF f[2] \in DOMAIN duration THEN {FullRows(f[2], f[4])} ELSE {})

\* _download_monthly_data: TRUE iff the file was written.
DownloadWrites(f, rates) == f[2] \in TIMEFRAME_MAP /\ Len(rates) > 0

\* One turn of download_missing_data's loop: _download_monthly_data of the
\* next file.
DownloadOne ==
    /\ pc = "fetch"
    /\ queue # <<>>
    /\ \E rates \in RatesOutcomes(Head(queue)) :
         LET f == Head(queue)
         IN  /\ mt5_log' = IF f[2] \in TIMEFRAME_MAP
                           THEN Append(mt5_log, Mt5Call("copy_rates_range", f, Len(rates) > 0))
                           ELSE mt5_log
             /\ files' = IF DownloadWrites(f, rates)
                         THEN [g \in DOMAIN files \cup {f} |-> IF g = f THEN rates ELSE files[g]]
                         ELSE files
             /\ successful' = IF DownloadWrites(f, rates) THEN successful + 1 ELSE successful
    /\ queue' = Tail(queue)
    /\ UNCHANGED <<symbols_config, exchange_config_file, exchange_configs, pc, ensure_result,
                   missing_files, total, mt5_connected, sym_idx, c, bot_traders, bot_trader,
                   tfs_chart, tfs_chart_init, max_time, end_time, timer, required_tfs>>
    /\ UNCHANGED summary_vars

DownloadVerdict_AnySuccess == successful >= 1

\* The verdict of download_missing_data.
DownloadVerdict == successful = total

\* The end of download_missing_data: mt5.shutdown() and the verdict, which
\* ensure_data_files returns and start() tests.
DownloadEnd ==
    /\ pc = "fetch"
    /\ queue = <<>>
    /\ mt5_log' = Append(mt5_log, Mt5Call("shutdown", <<>>, TRUE))
    /\ mt5_connected' = FALSE
    /\ EnsureReturns(DownloadVerdict)
    /\ UNCHANGED <<symbols_config, exchange_config_file, exchange_configs, files,
                   missing_files, queue, successful, total, bot_traders, bot_trader,
                   tfs_chart, tfs_chart_init, max_time, end_time, timer, required_tfs>>
    /\ UNCHANGED summary_vars

TraderAtRaise_InitChartFirst(symbol_cfg) ==
    [NewTrader(symbol_cfg) EXCEPT !.calls = <<InitChartCall(<<>>, 0)>>]

\* The Trader when the loading loop raises: created, its strategies set up,
\* and nothing delivered to it (init_chart comes after the loop).
TraderAtRaise(symbol_cfg) == NewTrader(symbol_cfg)

\* The charts backtest_bot_trader loads for a symbol, per required timeframe.
ChartsOf(symbol_cfg) ==
    [tf \in get_required_tfs(symbol_cfg) |-> chart_df(symbol_cfg, tf)]

\* backtest_bot_trader up to its replay loop: the Trader is created, the
\* charts are loaded and checked (ValueError, which start() does not catch),
\* aligned and cut into init and replay slices; init_chart gets the init
\* slices and the clock is set to max_time.
BacktestBegin ==
    /\ pc = "backtest"
    /\ sym_idx <= Len(symbols_config)
    /\ LET symbol_cfg == symbols_config[sym_idx]
           charts == ChartsOf(symbol_cfg)
       IN  IF LoadRaises(symbol_cfg)
           THEN /\ pc' = "raised"
                /\ bot_trader' = TraderAtRaise(symbol_cfg)
                /\ UNCHANGED <<tfs_chart, tfs_chart_init, max_time, end_time, timer,
                               required_tfs>>
           ELSE /\ pc' = "replay"
                /\ max_time' = MaxTimeOf(charts)
                /\ end_time' = EndTimeOf(charts)
                /\ tfs_chart_init' = [tf \in DOMAIN charts |->
                                         InitSlice(charts[tf], MaxTimeOf(charts))]
                /\ tfs_chart' = [tf \in DOMAIN charts |->
                                    ReplaySlice(charts[tf], MaxTimeOf(charts))]
                /\ bot_trader' = [NewTrader(symbol_cfg) EXCEPT
                                    !.calls = Append(@, InitChartCall(tfs_chart_init',
                                                                       MaxTimeOf(charts)))]
                /\ timer' = MaxTimeOf(charts)
                /\ required_tfs' = RequiredTfsOf(symbol_cfg)
    /\ UNCHANGED <<symbols_config, exchange_config_file, exchange_configs, files,
                   ensure_result, missing_files, queue, successful, total, mt5_connected,
                   mt5_log, sym_idx, c, bot_traders>>
    /\ UNCHANGED summary_vars

LoopContinues_Strict == timer < end_time

\* The test of the replay loop: `while timer <= end_time`.
LoopContinues == timer <= end_time

\* One turn of the replay loop: the clock advances by 60 seconds and every
\* timeframe whose rule fires hands one slice to on_kline.
Tick ==
    /\ pc = "replay"
    /\ LoopContinues
    /\ timer' = timer + 1
    /\ LET out == Dispatch(required_tfs, tfs_chart, bot_trader.calls, timer + 1)
       IN  /\ tfs_chart' = out.charts
           /\ bot_trader' = [bot_trader EXCEPT !.calls = out.calls]
    /\ UNCHANGED <<symbols_config, exchange_config_file, exchange_configs, files, pc,
                   ensure_result, missing_files, queue, successful, total, mt5_connected,
                   mt5_log, sym_idx, c, bot_traders, tfs_chart_init, max_time, end_time,
                   required_tfs>>
    /\ UNCHANGED summary_vars

RunBoundReached_Never(count) == FALSE

\* start()'s `if c >= 2: break`.
RunBoundReached(count) == count >= MaxSymbolsPerRun

\* The replay loop ends: backtest_bot_trader returns the trader, start()
\* appends it, counts it, and goes on to the next symbol unless it has
\* done MaxSymbolsPerRun of them.
BacktestEnd ==
    /\ pc = "replay"
    /\ ~LoopContinues
    /\ bot_traders' = Append(bot_traders, bot_trader)
    /\ c' = c + 1
    /\ IF RunBoundReached(c + 1) \/ sym_idx + 1 > Len(symbols_config)
       THEN pc' = "finished" /\ UNCHANGED sym_idx
       ELSE pc' = "backtest" /\ sym_idx' = sym_idx + 1
    /\ UNCHANGED <<symbols_config, exchange_config_file, exchange_configs, files,
                   ensure_result, missing_files, queue, successful, total, mt5_connected,
                   mt5_log, bot_trader, tfs_chart, tfs_chart_init, max_time, end_time,
                   timer, required_tfs>>
    /\ UNCHANGED summary_vars

(***************************************************************************)
(* summary_trade_result(), called once start() has returned.               *)
(***************************************************************************)
\* A row of a statistics report: its label and its numeric columns.
StatRow(name, pnl, trades) == [NAME |-> name, PNL |-> pnl, TRADES |-> trades]

\* Trader.statistic_trade(): a report of one row or more, the last of which
\* is the terminal statistics row.
StatisticReports ==
    {<<StatRow("", -1, 1)>>, <<StatRow("", 2, 0)>>, <<StatRow("", 1, 1), StatRow("", 2, 1)>>}

\* A call to a Trader outside the replay.
TraderCall(op) == [op |-> op, tf |-> "", kline |-> <<>>, chart |-> <<>>, clock |-> timer]

\* What summary_trade_result calls on each trader, in order.
SummaryCalls ==
    <<TraderCall("close_opening_orders"), TraderCall("statistic_trade"),
      TraderCall("log_orders"), TraderCall("plot_strategy_orders")>>

\* backtest_stats.loc[len(backtest_stats) - 1 :] after the last row was
\* labelled with the symbol name.
LabelledLastRow(report, name) == <<[report[Len(report)] EXCEPT !.NAME = name]>>

\* table_stats.sum(axis=0) on a numeric column.
RECURSIVE SumColumn(_, _)
SumColumn(rows, col) ==
    IF rows = <<>> THEN 0 ELSE Head(rows)[col] + SumColumn(Tail(rows), col)

\* The row of sums, labelled TOTAL.
TotalRow(rows) == StatRow("TOTAL", SumColumn(rows, "PNL"), SumColumn(rows, "TRADES"))

\* summary_trade_result: it goes through bot_traders, closes each trader's
\* orders, takes its statistics and keeps the last row under the symbol
\* name; pd.concat of these rows (which raises ValueError when there is
\* none) gets the row of sums appended.
SummaryTradeResult ==
    /\ pc \in {"finished", "returned"}
    /\ summary_result = "none"
    /\ \E reports \in [DOMAIN bot_traders -> StatisticReports] :
         LET final_backtest_stats ==
                 Concat([i \in DOMAIN bot_traders |->
                            LabelledLastRow(reports[i], bot_traders[i].symbol)])
         IN  /\ backtest_stats' = reports
             /\ IF final_backtest_stats = <<>>
                THEN /\ summary_result' = "raised"
                     /\ table_stats' = table_stats
                ELSE /\ summary_result' = "table"
                     /\ table_stats' = Append(final_backtest_stats,
                                              TotalRow(final_backtest_stats))
    /\ bot_traders' = [i \in DOMAIN bot_traders |->
                          [bot_traders[i] EXCEPT !.calls = @ \o SummaryCalls]]
    /\ UNCHANGED <<symbols_config, exchange_config_file, exchange_configs, files, pc,
                   ensure_result, missing_files, queue, successful, total, mt5_connected,
                   mt5_log, sym_idx, c, bot_trader, tfs_chart, tfs_chart_init, max_time,
                   end_time, timer, required_tfs>>

Next ==
    \/ EnsureDataFiles
    \/ DownloadBegin
    \/ DownloadOne
    \/ DownloadEnd
    \/ BacktestBegin
    \/ Tick
    \/ BacktestEnd
    \/ SummaryTradeResult

Spec == Init /\ [][Next]_vars

\* The runs whose first symbol has at most two strategies.
FairInit == Init /\ Len(symbols_config[1].strategies) <= 2

\* The program keeps running: a step that can be taken is taken.
FairSpec == FairInit /\ [][Next]_vars /\ WF_vars(Next)

(***************************************************************************)
(* What the properties below speak of.                                     *)
(***************************************************************************)
\* The traders that exist: the finished ones and the running one.
AllTraders == Range(bot_traders) \cup {bot_trader}

\* The candles a trader was handed for a timeframe, in order of delivery
\* (a call with an empty slice hands over no candle).
Delivered(trader, tf) ==
    LET hits == SelectSeq(trader.calls,
                          LAMBDA call : call.op = "on_kline" /\ call.tf = tf /\ call.kline # <<>>)
    IN  [i \in DOMAIN hits |-> hits[i].kline[1]]

\* The symbol entry of the backtest that is running or has just ended.
CurrentCfg == symbols_config[sym_idx]

\* backtest_bot_trader has been entered for the symbol at sym_idx.
Entered ==
    /\ sym_idx \in DOMAIN symbols_config
    /\ bot_trader.symbol = CurrentCfg.symbol

\* The candles storage holds for a timeframe of a symbol entry, over its months.
StoredCandles(symbol_cfg, tf) ==
    UNION {Range(load_klines_monthly_data(symbol_cfg.symbol, tf, m, symbol_cfg.year)) :
           m \in Range(symbol_cfg.months)}

\* Some stored file of the symbol entry is not in ascending order.
SomeFileUnsorted(symbol_cfg) ==
    \E tf \in Intervals(symbol_cfg), m \in Range(symbol_cfg.months) :
        LET rows == load_klines_monthly_data(symbol_cfg.symbol, tf, m, symbol_cfg.year)
        IN  \E i, j \in DOMAIN rows : i < j /\ rows[i] > rows[j]

(***************************************************************************)
(* C1.  No look-ahead: at every on_kline call that hands over a candle,    *)
(* the virtual clock is at or after the candle's close time, that is       *)
(* Open time + duration(tf) <= clock.                                      *)
(***************************************************************************)
C1_NoLookAhead ==
    \A trader \in AllTraders :
        \A i \in DOMAIN trader.calls :
            LET call == trader.calls[i]
            IN  (call.op = "on_kline" /\ call.kline # <<>>) =>
                    call.kline[1] + duration[call.tf] <= call.clock

(***************************************************************************)
(* C2.  For each timeframe the candles handed to on_kline come in strictly *)
(* increasing Open time order, so none is handed over twice.               *)
(***************************************************************************)
C2_DeliveryStrictlyIncreasing ==
    \A trader \in AllTraders :
        \A tf \in Range(tf_cron_keys) :
            LET d == Delivered(trader, tf)
            IN  \A i, j \in DOMAIN d : i < j => d[i] < d[j]

\* Two candles of one timeframe were delivered from files whose rows were not
\* in ascending order.
C2_Witness ==
    /\ Entered
    /\ SomeFileUnsorted(CurrentCfg)
    /\ \E tf \in Range(tf_cron_keys) : Len(Delivered(bot_trader, tf)) >= 2

\* The replay loop of the symbol at sym_idx has just ended.
LoopEnded == pc = "replay" /\ timer > end_time

(***************************************************************************)
(* C3.  Completeness of replay: when the replay loop has ended, every      *)
(* timeframe has been handed exactly the candles of its replay slice (the  *)
(* stored candles later than max_time), and none is left.                  *)
(***************************************************************************)
C3_ReplayComplete ==
    LoopEnded =>
        \A tf \in get_required_tfs(CurrentCfg) :
            /\ Delivered(bot_trader, tf) =
                   SetToSortedSeq({t \in StoredCandles(CurrentCfg, tf) : t > max_time})
            /\ tfs_chart[tf] = <<>>

\* The loop has ended after two timeframes were replayed, each with a candle
\* delivered, one of them with a gap in its series before a replay candle.
C3_Witness ==
    /\ LoopEnded
    /\ Cardinality(get_required_tfs(CurrentCfg)) >= 2
    /\ \A tf \in get_required_tfs(CurrentCfg) : Len(Delivered(bot_trader, tf)) >= 1
    /\ \E tf \in get_required_tfs(CurrentCfg) :
           \E t \in Grid(tf) \ StoredCandles(CurrentCfg, tf) :
               \E a, b \in StoredCandles(CurrentCfg, tf) : a < t /\ t < b /\ max_time < b

(***************************************************************************)
(* C4.  A timeframe whose rule fires when its replay slice is empty is     *)
(* skipped: on_kline is never called with an empty slice.                  *)
(***************************************************************************)
C4_NoEmptyDelivery ==
    \A trader \in AllTraders :
        \A i \in DOMAIN trader.calls :
            trader.calls[i].op = "on_kline" => trader.calls[i].kline # <<>>

\* The alignment has just been made: init_chart is the only call so far.
JustAligned == pc = "replay" /\ timer = max_time /\ Len(bot_trader.calls) = 1

(***************************************************************************)
(* C5.  After a successful alignment, for every required timeframe: the    *)
(* init slice has exactly NUM_KLINE_INIT candles, its last Open time is    *)
(* <= max_time, a non-empty replay slice starts after max_time, no candle  *)
(* is in the two slices twice, and the replay slice is exactly the stored  *)
(* candles later than max_time.                                            *)
(***************************************************************************)
C5_AlignedSlices ==
    JustAligned =>
        /\ DOMAIN tfs_chart = get_required_tfs(CurrentCfg)
        /\ DOMAIN tfs_chart_init = get_required_tfs(CurrentCfg)
        /\ bot_trader.calls[1].op = "init_chart"
        /\ bot_trader.calls[1].chart = tfs_chart_init
        /\ \A tf \in get_required_tfs(CurrentCfg) :
               LET init == tfs_chart_init[tf]
                   replay == tfs_chart[tf]
                   both == init \o replay
               IN  /\ Len(init) = NUM_KLINE_INIT
                   /\ init[Len(init)] <= max_time
                   /\ replay # <<>> => max_time < replay[1]
                   /\ \A i, j \in DOMAIN both : i < j => both[i] # both[j]
                   /\ replay = SetToSortedSeq({t \in StoredCandles(CurrentCfg, tf) :
                                                  t > max_time})

\* Two timeframes were aligned, one of which had more than NUM_KLINE_INIT
\* candles up to max_time (its init slice was trimmed) and one of which has
\* candles to replay.
C5_Witness ==
    /\ JustAligned
    /\ Cardinality(get_required_tfs(CurrentCfg)) >= 2
    /\ \E tf \in get_required_tfs(CurrentCfg) :
           Cardinality({t \in StoredCandles(CurrentCfg, tf) : t <= max_time}) > NUM_KLINE_INIT
    /\ \E tf \in get_required_tfs(CurrentCfg) : tfs_chart[tf] # <<>>

CandlesUpTo(symbol_cfg, tf, t) ==
    Cardinality({x \in StoredCandles(symbol_cfg, tf) : x <= t})

AllStoredCandles(symbol_cfg) ==
    UNION {StoredCandles(symbol_cfg, tf) : tf \in get_required_tfs(symbol_cfg)}

(***************************************************************************)
(* C6.  max_time is the earliest instant at which every required timeframe *)
(* has at least NUM_KLINE_INIT candles with Open time <= it, and end_time   *)
(* is the latest Open time of all the candles of the required timeframes.   *)
(***************************************************************************)
C6_GlobalStartAndEnd ==
    JustAligned =>
        /\ \A tf \in get_required_tfs(CurrentCfg) :
               CandlesUpTo(CurrentCfg, tf, max_time) >= NUM_KLINE_INIT
        /\ \A t \in Min(AllStoredCandles(CurrentCfg))..(max_time - 1) :
               \E tf \in get_required_tfs(CurrentCfg) :
                   CandlesUpTo(CurrentCfg, tf, t) < NUM_KLINE_INIT
        /\ end_time = Max(AllStoredCandles(CurrentCfg))

\* Two timeframes were aligned whose warm-up windows end at different
\* instants and whose last candles differ.
C6_Witness ==
    /\ JustAligned
    /\ \E tf1, tf2 \in get_required_tfs(CurrentCfg) :
           /\ CandlesUpTo(CurrentCfg, tf1, max_time - 1) < NUM_KLINE_INIT
           /\ CandlesUpTo(CurrentCfg, tf2, max_time - 1) >= NUM_KLINE_INIT
           /\ Max(StoredCandles(CurrentCfg, tf1)) # Max(StoredCandles(CurrentCfg, tf2))

ShortOfCandles(symbol_cfg) ==
    \E tf \in get_required_tfs(symbol_cfg) :
        Cardinality(StoredCandles(symbol_cfg, tf)) < NUM_KLINE_INIT

(***************************************************************************)
(* C7.  If a required timeframe of a symbol has no candle at all, or fewer *)
(* than NUM_KLINE_INIT, backtest_bot_trader fails with an error before     *)
(* init_chart is called and before any on_kline for that symbol.           *)
(***************************************************************************)
C7_FailsBeforeAnyDelivery ==
    (Entered /\ ShortOfCandles(CurrentCfg)) =>
        (pc = "raised" /\ bot_trader.calls = <<>>)

\* A backtest failed on a symbol with a timeframe that has candles, but too
\* few, beside a timeframe that has enough.
C7_Witness ==
    /\ Entered
    /\ pc = "raised"
    /\ \E tf \in get_required_tfs(CurrentCfg) :
           /\ StoredCandles(CurrentCfg, tf) # {}
           /\ Cardinality(StoredCandles(CurrentCfg, tf)) < NUM_KLINE_INIT
    /\ \E tf \in get_required_tfs(CurrentCfg) :
           Cardinality(StoredCandles(CurrentCfg, tf)) >= NUM_KLINE_INIT

(***************************************************************************)
(* C8.  Whenever ensure_data_files has returned true, every required file  *)
(* is in storage.                                                          *)
(***************************************************************************)
C8_EnsuredFilesPresent ==
    ensure_result = "true" => \A f \in get_required_data_files : FileExists(f)

\* ensure_data_files returned true after fetching two files or more, with
\* another required file present beforehand.
C8_Witness ==
    /\ ensure_result = "true"
    /\ Len(missing_files) >= 2
    /\ \E f \in get_required_data_files : f \notin Range(missing_files)

\* The fetches made so far (calls of mt5.copy_rates_range), in order.
Fetches == SelectSeq(mt5_log, LAMBDA call : call.op = "copy_rates_range")

\* download_missing_data has gone through its loop and shut MT5 down.
DownloadDone == mt5_log # <<>> /\ mt5_log[Len(mt5_log)].op = "shutdown"

(***************************************************************************)
(* C9.  download_missing_data fetches each missing file exactly once and   *)
(* never a file that is present; a failed fetch neither stops the others   *)
(* nor is retried; the verdict is true iff every fetch succeeded.          *)
(***************************************************************************)
C9_FetchEachMissingOnce ==
    /\ \A i, j \in DOMAIN Fetches : i # j => Fetches[i].file # Fetches[j].file
    /\ \A i \in DOMAIN Fetches :
           /\ Fetches[i].file \in get_required_data_files
           /\ FileExists(Fetches[i].file) => Fetches[i].ok
    /\ pc = "fetch" =>
           \A k \in DOMAIN queue :
               /\ ~FileExists(queue[k])
               /\ \A i \in DOMAIN Fetches : Fetches[i].file # queue[k]
    /\ DownloadDone =>
           /\ \A f \in get_required_data_files :
                  ~FileExists(f) => \E i \in DOMAIN Fetches : Fetches[i].file = f
           /\ (ensure_result = "true") <=> (\A i \in DOMAIN Fetches : Fetches[i].ok)

\* Three files or more were fetched, one failed before another succeeded,
\* and a file that was present was not fetched.
C9_Witness ==
    /\ DownloadDone
    /\ Len(Fetches) >= 3
    /\ \E i, j \in DOMAIN Fetches : i < j /\ ~Fetches[i].ok /\ Fetches[j].ok
    /\ \E f \in get_required_data_files :
           FileExists(f) /\ \A i \in DOMAIN Fetches : Fetches[i].file # f

(***************************************************************************)
(* C10.  If ensure_data_files returned false, start() returns without      *)
(* beginning any backtest: no Trader, no init_chart, no on_kline, and      *)
(* bot_traders unchanged.                                                  *)
(***************************************************************************)
C10_NoBacktestWithoutData ==
    ensure_result = "false" =>
        /\ pc = "returned"
        /\ sym_idx = 0
        /\ bot_trader = NoTrader
        /\ bot_traders = <<>>

\* start() has returned after a fetch failed.
C10_Witness ==
    /\ ensure_result = "false"
    /\ pc = "returned"
    /\ \E i \in DOMAIN Fetches : ~Fetches[i].ok

\* No trader has received any call.
NothingDelivered == \A trader \in AllTraders : trader.calls = <<>>

(***************************************************************************)
(* C11.  When a required file is missing and no exchange config file was   *)
(* given, ensure_data_files returns false in one go: no call to MT5 (no    *)
(* initialize, no fetch), storage as it was; start() returns without a    *)
(* backtest, so no candle is ever delivered.                               *)
(***************************************************************************)
C11_NoProviderReturnsFalse ==
    /\ [][(pc = "start" /\ MissingSet # {} /\ ~exchange_config_file) =>
               /\ ensure_result' = "false"
               /\ pc' = "returned"
               /\ files' = files
               /\ mt5_log' = <<>>
               /\ mt5_connected' = FALSE
               /\ Range(missing_files') = MissingSet]_vars
    /\ []((~exchange_config_file /\ MissingSet # {} /\ pc # "start") =>
               /\ ensure_result = "false"
               /\ pc = "returned"
               /\ mt5_log = <<>>
               /\ NothingDelivered
               /\ bot_traders = <<>>)

\* The scenario: months [1, 2] required, only the file of month 1 present,
\* no exchange config file; ensure_data_files has returned false.
C11_Witness ==
    /\ ensure_result = "false"
    /\ ~exchange_config_file
    /\ Len(symbols_config) = 1
    /\ symbols_config[1].months = <<1, 2>>
    /\ FileExists(<<"S1", "1m", 2024, 1>>)
    /\ ~FileExists(<<"S1", "1m", 2024, 2>>)
    /\ files[<<"S1", "1m", 2024, 1>>] # <<>>

(***************************************************************************)
(* C12.  When every required file is in storage, ensure_data_files returns *)
(* true at once: no fetch, no MT5 session, storage as it was.              *)
(***************************************************************************)
C12_AllPresentReturnsTrue ==
    /\ [][(pc = "start" /\ MissingSet = {}) =>
               /\ ensure_result' = "true"
               /\ missing_files' = <<>>
               /\ files' = files
               /\ mt5_log' = <<>>
               /\ mt5_connected' = FALSE
               /\ queue' = <<>>]_vars
    /\ []((pc # "start" /\ missing_files = <<>>) =>
               /\ ensure_result = "true"
               /\ mt5_log = <<>>
               /\ ~mt5_connected
               /\ pc \notin {"download", "fetch", "returned"})
    /\ [][ensure_result # "none" => files' = files]_vars

\* ensure_data_files returned true with nothing missing, for two symbols or
\* more, although an MT5 exchange config was there to download with.
C12_Witness ==
    /\ ensure_result = "true"
    /\ missing_files = <<>>
    /\ Len(symbols_config) >= 2
    /\ exchange_config_file
    /\ "mt5" \in exchange_configs

\* The timeframes a symbol entry's strategies name, read off the entry.
NamedTimeframes(symbol_cfg) ==
    {tf \in Range(tf_cron_keys) :
        \E k \in DOMAIN symbol_cfg.strategies : symbol_cfg.strategies[k].tf = tf}

\* start() is at the data provisioning or has just left it: no backtest has
\* begun.  (The configuration is read again by start(), unchanged.)
ProvisioningPhase == bot_trader = NoTrader /\ bot_traders = <<>> /\ summary_result = "none"

(***************************************************************************)
(* C13.  get_required_data_files is, for each symbol entry, the product of *)
(* the distinct timeframes of its strategies and its months, tagged with   *)
(* its symbol and year: |timeframes| x |months| files, the same for any    *)
(* order of the strategies or months and any repetition of a timeframe.    *)
(***************************************************************************)
C13_RequiredFilesAreProduct ==
    ProvisioningPhase =>
        /\ \A f \in get_required_data_files :
               \E i \in DOMAIN symbols_config :
                   LET e == symbols_config[i]
                   IN  /\ f = <<e.symbol, f[2], e.year, f[4]>>
                       /\ f[2] \in NamedTimeframes(e)
                       /\ \E k \in DOMAIN e.months : e.months[k] = f[4]
        /\ \A i \in DOMAIN symbols_config :
               LET e == symbols_config[i]
               IN  /\ \A tf \in NamedTimeframes(e), k \in DOMAIN e.months :
                          <<e.symbol, tf, e.year, e.months[k]>> \in get_required_data_files
                   /\ Cardinality({f \in get_required_data_files : f[1] = e.symbol}) =
                          Cardinality(NamedTimeframes(e)) * Cardinality(Range(e.months))
                   /\ \A tfs \in StrategyLists, months \in MonthLists :
                          (Range(tfs) = NamedTimeframes(e) /\ Range(months) = Range(e.months)) =>
                              RequiredOf(<<SymbolEntry(e.symbol, months, tfs)>>) =
                                  {f \in get_required_data_files : f[1] = e.symbol}

\* The required files of a symbol entry with the same timeframe twice and
\* two months in descending order have been resolved and checked.
C13_Witness ==
    /\ pc = "backtest"
    /\ ProvisioningPhase
    /\ Len(symbols_config) = 1
    /\ Len(symbols_config[1].strategies) > Cardinality(NamedTimeframes(symbols_config[1]))
    /\ symbols_config[1].months = <<2, 1>>
    /\ Cardinality(get_required_data_files) = 2

\* The run is that of a worked example.
InScenario(sc) == symbols_config = ScenarioConfig(sc) /\ files = ScenarioFiles(sc)

\* The on_kline calls a trader has received, in order.
OnKlineCalls(trader) == SelectSeq(trader.calls, LAMBDA call : call.op = "on_kline")

\* The backtest of the symbol at sym_idx has gone through its whole loop.
ReplayOver == LoopEnded \/ pc = "finished"

\* The on_kline calls of the hourly example: 09:00, 10:00, 11:00, each at
\* its own time.
HourlyDeliveries ==
    [k \in 1..3 |-> OnKlineCall("1h", <<GridBase + k * 60>>, GridBase + k * 60)]

(***************************************************************************)
(* C14.  One timeframe 1h (rule: minute 0), the clock starting at 08:00,   *)
(* the replay slice holding the candles 09:00, 10:00 and 11:00: the replay *)
(* makes exactly three on_kline calls, handing over 09:00 at clock 09:00,  *)
(* 10:00 at 10:00 and 11:00 at 11:00, in that order, and no other.         *)
(***************************************************************************)
C14_HourlyScenario ==
    (InScenario("hourly") /\ pc \notin {"start", "backtest"}) =>
        LET calls == OnKlineCalls(bot_trader)
        IN  /\ pc # "raised"
            /\ max_time = GridBase
            /\ Len(calls) <= 3
            /\ \A i \in DOMAIN calls : calls[i] = HourlyDeliveries[i]
            /\ \A i \in DOMAIN calls : timer >= calls[i].clock
            /\ \A k \in 1..3 : timer >= GridBase + k * 60 => Len(calls) >= k
            /\ ReplayOver => calls = HourlyDeliveries

\* The hourly example has run to its end: the clock has passed 11:00.
C14_Witness ==
    /\ InScenario("hourly")
    /\ pc = "finished"
    /\ timer > GridBase + 3 * 60
    /\ bot_traders = <<bot_trader>>
    /\ Len(bot_trader.calls) = 4

\* The on_kline calls of a trader that hand over a candle of a timeframe.
DeliveryCalls(trader, tf) ==
    SelectSeq(trader.calls,
              LAMBDA call : call.op = "on_kline" /\ call.tf = tf /\ call.kline # <<>>)

\* The counts of the claim, once the window has been replayed.
C15_Counts ==
    \A sc \in {"five_minutes", "next_five"} :
        (InScenario(sc) /\ ReplayOver) =>
            /\ Len(Delivered(bot_trader, "1m")) = 5
            /\ Len(Delivered(bot_trader, "5m")) = 1

\* The order of the claim: a 5m candle is not handed over before the 1m
\* candle with the same close time.
C15_FiveAfterOne ==
    \A sc \in {"five_minutes", "next_five"} :
        InScenario(sc) =>
            LET ones == DeliveryCalls(bot_trader, "1m")
                fives == DeliveryCalls(bot_trader, "5m")
            IN  \A i \in DOMAIN fives :
                    \A t \in ScenarioCandles(sc, "1m") :
                        t + duration["1m"] = fives[i].kline[1] + duration["5m"] =>
                            \E j \in DOMAIN ones :
                                ones[j].kline[1] = t /\ ones[j].clock <= fives[i].clock

(***************************************************************************)
(* C15.  Timeframes 1m and 5m replayed over a five-minute window: 1m is    *)
(* handed 5 candles and 5m exactly 1, and the 5m candle is handed over at  *)
(* a tick not earlier than the tick of the 1m candle that closes at the    *)
(* same minute as it.                                                      *)
(***************************************************************************)
C15_FiveMinuteWindow == C15_Counts /\ C15_FiveAfterOne

\* The symbols after the one at sym_idx that the bound of symbols per run
\* still leaves room for.
RemainingSymbols ==
    {j \in DOMAIN symbols_config : j > sym_idx /\ j - sym_idx <= MaxSymbolsPerRun - c}

(***************************************************************************)
(* C16.  A symbol whose alignment fails (no data, or too few candles)      *)
(* fails alone: it leaves no entry in bot_traders, the traders of the      *)
(* symbols done before it stay in bot_traders, and start() goes on to the  *)
(* symbols after it, as far as the bound of symbols per run allows.        *)
(***************************************************************************)
C16_FailureConfined ==
    /\ \A i \in DOMAIN bot_traders :
           /\ bot_traders[i].symbol = symbols_config[i].symbol
           /\ ~ShortOfCandles(symbols_config[i])
    /\ pc = "raised" =>
           /\ Len(bot_traders) = sym_idx - 1
           /\ RemainingSymbols = {}

\* What the returned table holds when there is one.
C17_RowsAndTotal ==
    summary_result = "table" =>
        LET n == Len(bot_traders)
        IN  /\ Len(table_stats) = n + 1
            /\ \A i \in 1..n :
                   LET report == backtest_stats[i]
                   IN  /\ table_stats[i].NAME = bot_traders[i].symbol
                       /\ table_stats[i].PNL = report[Len(report)].PNL
                       /\ table_stats[i].TRADES = report[Len(report)].TRADES
            /\ table_stats[n + 1].NAME = "TOTAL"
            /\ \A i \in 1..n : table_stats[i].NAME # "TOTAL"
            /\ table_stats[n + 1].PNL = SumColumn(SubSeq(table_stats, 1, n), "PNL")
            /\ table_stats[n + 1].TRADES = SumColumn(SubSeq(table_stats, 1, n), "TRADES")

(***************************************************************************)
(* C17.  summary_trade_result returns a table: one row per trader of       *)
(* bot_traders, in order (the last row of the trader's statistics under    *)
(* its symbol name), then one row TOTAL whose numeric columns are the sums *)
(* of the columns over the rows above it.                                  *)
(***************************************************************************)
C17_SummaryTable ==
    /\ summary_result # "none" => summary_result = "table"
    /\ C17_RowsAndTotal

\* A table was returned for two traders, one of them with a report of two rows.
C17_TableReturned ==
    /\ summary_result = "table"
    /\ Len(bot_traders) = 2
    /\ \E i \in DOMAIN backtest_stats : Len(backtest_stats[i]) = 2

\* The calls of on_kline a trader has received for a timeframe, with or
\* without a candle.
OnKlineCallsOf(trader, tf) ==
    SelectSeq(trader.calls, LAMBDA call : call.op = "on_kline" /\ call.tf = tf)

(***************************************************************************)
(* C18.  The replay loop terminates.  The clock starts at max_time, gains  *)
(* exactly 60 seconds at each tick and never goes back; the loop stops     *)
(* once the clock is past end_time, after floor((end_time - max_time) /    *)
(* 60 s) + 1 ticks, the last of them at the first clock value greater than *)
(* end_time.  (The clock counts minutes; a 1m timeframe is called once per *)
(* tick, which counts the ticks.)                                          *)
(***************************************************************************)
C18_ReplayTerminates ==
    /\ [][(pc = "backtest" /\ pc' = "replay") => timer' = max_time']_vars
    /\ [][pc = "replay" =>
               \/ timer' = timer
               \/ /\ timer' = timer + 1
                  /\ timer <= end_time
                  /\ pc' = "replay"
                  /\ max_time' = max_time /\ end_time' = end_time]_vars
    /\ [](pc = "replay" =>
               /\ max_time <= timer /\ timer <= end_time + 1
               /\ "1m" \in DOMAIN tfs_chart =>
                      Len(OnKlineCallsOf(bot_trader, "1m")) = timer - max_time)
    /\ [][Len(bot_traders') > Len(bot_traders) =>
               /\ timer = end_time + 1
               /\ timer - max_time = ((end_time - max_time) * 60) \div 60 + 1
               /\ "1m" \in DOMAIN tfs_chart =>
                      /\ Len(OnKlineCallsOf(bot_trader, "1m")) =
                             ((end_time - max_time) * 60) \div 60 + 1
                      /\ \A i \in DOMAIN OnKlineCallsOf(bot_trader, "1m") :
                             OnKlineCallsOf(bot_trader, "1m")[i].clock = max_time + i]_vars
    /\ (pc = "replay") ~> LoopEnded

\* A loop of three ticks or more on 1m and another timeframe has ended.
C18_Witness ==
    /\ LoopEnded
    /\ timer - max_time >= 3
    /\ "1m" \in DOMAIN tfs_chart
    /\ Cardinality(DOMAIN tfs_chart) >= 2

(***************************************************************************)
(* C19.  In the backtest of a symbol that gets to its replay, init_chart   *)
(* is called exactly once, with the init slices of the timeframes, before  *)
(* any on_kline; once the replay loop has ended the trader is appended to  *)
(* bot_traders as it is and receives no on_kline any more.                 *)
(***************************************************************************)
C19_InitChartOnceThenReplay ==
    /\ [](\A trader \in AllTraders :
             \A i \in DOMAIN trader.calls : (trader.calls[i].op = "init_chart") <=> (i = 1))
    /\ [](\A i \in DOMAIN bot_traders : bot_traders[i].calls # <<>>)
    /\ [](pc = "replay" =>
             /\ bot_trader.calls # <<>>
             /\ bot_trader.calls[1] = InitChartCall(tfs_chart_init, max_time)
             /\ DOMAIN tfs_chart_init = get_required_tfs(CurrentCfg)
             /\ \A tf \in DOMAIN tfs_chart_init : Len(tfs_chart_init[tf]) = NUM_KLINE_INIT)
    /\ [][(pc = "backtest" /\ pc' = "replay") =>
              bot_trader'.calls = <<InitChartCall(tfs_chart_init', max_time')>>]_vars
    /\ [][LoopEnded => (bot_trader' = bot_trader /\ bot_traders' = Append(bot_traders, bot_trader))]_vars
    /\ [][pc # "replay" => OnKlineCalls(bot_trader') \in {OnKlineCalls(bot_trader), <<>>}]_vars
    /\ [][\A i \in DOMAIN bot_traders :
              /\ i \in DOMAIN bot_traders'
              /\ OnKlineCalls(bot_traders'[i]) = OnKlineCalls(bot_traders[i])]_vars

\* Two symbols were backtested, each with on_kline calls and one with two
\* candles delivered, and the summary has called both traders after their
\* loops had ended.
C19_Witness ==
    /\ summary_result = "table"
    /\ Len(bot_traders) = 2
    /\ \A i \in DOMAIN bot_traders : OnKlineCalls(bot_traders[i]) # <<>>
    /\ \E i \in DOMAIN bot_traders : Len(Delivered(bot_traders[i], "1m")) >= 2

\* The firing rules, as the specification words them: 1m at every minute,
\* 5m at the minutes that are multiples of 5, 1h at minute 0.
RuleMatches(tf, clock) ==
    \/ tf = "1m"
    \/ tf = "5m" /\ MinuteOf(clock) % 5 = 0
    \/ tf = "1h" /\ MinuteOf(clock) = 0

\* This step is a tick of the replay loop.
IsTick == pc = "replay" /\ timer' # timer

(***************************************************************************)
(* C20.  A tick takes from a timeframe's replay slice at most its oldest   *)
(* candle, and only if the timeframe's rule matches the tick's hour and    *)
(* minute; the replay slices of the other timeframes and all the init      *)
(* slices are as before.  So no replay slice ever grows and an empty one   *)
(* stays empty.                                                            *)
(***************************************************************************)
C20_TickPopsAtMostOne ==
    /\ [][IsTick =>
              /\ tfs_chart_init' = tfs_chart_init
              /\ DOMAIN tfs_chart' = DOMAIN tfs_chart
              /\ \A tf \in DOMAIN tfs_chart :
                     LET before == tfs_chart[tf]
                         after == tfs_chart'[tf]
                     IN  /\ \/ after = before
                            \/ /\ before # <<>>
                               /\ after = SubSeq(before, 2, Len(before))
                               /\ RuleMatches(tf, timer')
                         /\ (RuleMatches(tf, timer') /\ before # <<>>) =>
                                Len(after) = Len(before) - 1
                         /\ Len(after) <= Len(before)
                         /\ before = <<>> => after = <<>>]_vars
    /\ [][(pc = "replay" /\ ~IsTick) => UNCHANGED <<tfs_chart, tfs_chart_init>>]_vars

\* A tick has taken a candle from one timeframe's replay slice while the
\* rule of another timeframe, whose slice holds a candle, did not match.
C20_Witness ==
    /\ pc = "replay"
    /\ timer > max_time
    /\ \E tf \in DOMAIN tfs_chart :
           /\ RuleMatches(tf, timer)
           /\ \E i \in DOMAIN bot_trader.calls :
                  /\ bot_trader.calls[i] = OnKlineCall(tf, bot_trader.calls[i].kline, timer)
                  /\ bot_trader.calls[i].kline # <<>>
    /\ \E tf \in DOMAIN tfs_chart : ~RuleMatches(tf, timer) /\ tfs_chart[tf] # <<>>

\* The place of a timeframe in the key order of tf_cron.
KeyIndex(tf) == CHOOSE i \in DOMAIN tf_cron_keys : tf_cron_keys[i] = tf

\* The on_kline calls a trader received in the tick at `clock`, in order.
TickCalls(trader, clock) ==
    SelectSeq(trader.calls, LAMBDA call : call.op = "on_kline" /\ call.clock = clock)

\* The ticks (clock values) of a trader's replay at which both timeframes
\* were handed to on_kline.
TicksWithBoth(trader, a, b) ==
    {trader.calls[i].clock : i \in {k \in DOMAIN trader.calls :
        /\ trader.calls[k].op = "on_kline" /\ trader.calls[k].tf = a
        /\ \E l \in DOMAIN trader.calls :
               /\ trader.calls[l].op = "on_kline" /\ trader.calls[l].tf = b
               /\ trader.calls[l].clock = trader.calls[k].clock}}

(***************************************************************************)
(* C21.  Within a tick the timeframes whose rule fires are handed over in  *)
(* one fixed order, the key order of tf_cron restricted to the required    *)
(* timeframes, each once, whatever the order of the symbol's strategies.   *)
(* Stated of the tick just made in every state of a replay, that is of     *)
(* every tick: two timeframes that both fire come in the same order in     *)
(* every tick.                                                             *)
(***************************************************************************)
C21_FixedOrderWithinTick ==
    (pc = "replay" /\ timer > max_time) =>
        LET tick == TickCalls(bot_trader, timer)
        IN  /\ \A i, j \in DOMAIN tick :
                   i < j => KeyIndex(tick[i].tf) < KeyIndex(tick[j].tf)
            /\ {tick[i].tf : i \in DOMAIN tick} =
                   {tf \in NamedTimeframes(CurrentCfg) : RuleMatches(tf, timer)}

\* Two timeframes listed by the strategies in the reverse of the key order
\* have both been handed over in two ticks or more.
C21_Witness ==
    /\ Entered
    /\ \E i, j \in DOMAIN CurrentCfg.strategies :
           /\ i < j
           /\ KeyIndex(CurrentCfg.strategies[i].tf) > KeyIndex(CurrentCfg.strategies[j].tf)
           /\ Cardinality(TicksWithBoth(bot_trader, CurrentCfg.strategies[i].tf,
                                        CurrentCfg.strategies[j].tf)) >= 2

\* The init_chart and on_kline calls a trader has received, in order.
ReplayCalls(trader) ==
    SelectSeq(trader.calls, LAMBDA call : call.op \in {"init_chart", "on_kline"})

(***************************************************************************)
(* C22.  start() backtests the symbols one after another in the order of   *)
(* the configuration: a call of init_chart or on_kline goes to the trader  *)
(* of the symbol at hand, when the traders of all the symbols before it    *)
(* are in bot_traders, where they receive no such call any more; a trader  *)
(* is appended to bot_traders only once its replay loop has ended; and no  *)
(* more than MaxSymbolsPerRun (2) symbols are backtested in a run.         *)
(***************************************************************************)
C22_SequentialBoundedRun ==
    /\ [](/\ Len(bot_traders) = c
          /\ Len(bot_traders) <= MaxSymbolsPerRun
          /\ sym_idx <= MaxSymbolsPerRun
          /\ \A i \in DOMAIN bot_traders : bot_traders[i].symbol = symbols_config[i].symbol)
    /\ [](pc \in {"replay", "raised"} =>
              /\ Len(bot_traders) = sym_idx - 1
              /\ bot_trader.symbol = symbols_config[sym_idx].symbol)
    /\ [][bot_trader' # bot_trader =>
              /\ bot_trader'.symbol = symbols_config[sym_idx'].symbol
              /\ Len(bot_traders) = sym_idx' - 1
              /\ bot_traders' = bot_traders]_vars
    /\ [][Len(bot_traders') > Len(bot_traders) =>
              /\ LoopEnded
              /\ bot_traders' = Append(bot_traders, bot_trader)]_vars
    /\ [][\A i \in DOMAIN bot_traders :
              /\ i \in DOMAIN bot_traders'
              /\ ReplayCalls(bot_traders'[i]) = ReplayCalls(bot_traders[i])]_vars

\* A run over three symbols has finished after two of them, each replayed
\* with on_kline calls.
C22_Witness ==
    /\ pc = "finished"
    /\ Len(symbols_config) > MaxSymbolsPerRun
    /\ Len(bot_traders) = MaxSymbolsPerRun
    /\ \A i \in DOMAIN bot_traders : OnKlineCalls(bot_traders[i]) # <<>>

\* download_missing_data has returned (ensure_data_files returned what it gave).
DownloadReturned == ensure_result # "none" /\ missing_files # <<>> /\ exchange_config_file

\* mt5.shutdown() comes after every fetch: no call follows it.
C23_ShutdownIsLast ==
    \A i \in DOMAIN mt5_log : mt5_log[i].op = "shutdown" => i = Len(mt5_log)

\* The MT5 calls made so far hold a successful initialize().
SessionOpened ==
    \E i \in DOMAIN mt5_log : mt5_log[i].op = "initialize" /\ mt5_log[i].ok

(***************************************************************************)
(* C23.  When download_missing_data has returned, every MT5 session it     *)
(* opened (a successful mt5.initialize()) has been shut down, on the paths *)
(* of a failed login and of a failed account_info too; and mt5.shutdown()  *)
(* is never called before the last fetch.                                  *)
(***************************************************************************)
C23_SessionShutDown ==
    /\ DownloadReturned =>
           /\ ~mt5_connected
           /\ SessionOpened => mt5_log[Len(mt5_log)].op = "shutdown"
    /\ C23_ShutdownIsLast

====
